---- MODULE Spec2Model ----
(***************************************************************************)
(* Model of gantty (src/src/main.py): the project validation, the layout   *)
(* pass that computes every task's bar, and the live curses loop with its  *)
(* SIGINT handler.                                                         *)
(***************************************************************************)
EXTENDS Integers, Sequences, FiniteSets

VARIABLES tasks, resources, pc, idx, prev_task, running, screen, terminal,
          handler, err, passes, last_pass, fresh, drawn, errored

vars == <<tasks, resources, pc, idx, prev_task, running, screen, terminal,
          handler, err, passes, last_pass, fresh, drawn, errored>>

(* ------------------------------ bounds --------------------------------- *)
MaxTasks == 3
MaxDur == 2
MaxPasses == 3

(* ------------------------------ inputs --------------------------------- *)
\* depends_on is nullable: None is the empty tuple, the integer n is <<n>>.
None == <<>>
Previous == <<-1>>

ResourceNames == {"alice", "bob"}
Durations == 1..MaxDur

\* Tasks the layout supports: any duration, dependency None or Previous,
\* any declared resource.
SupportedTasks ==
    [duration : Durations, depends_on : {None, Previous}, asignee : ResourceNames]

\* Tasks with some other depends_on value, or with an undeclared asignee.
OtherTasks ==
    { [duration |-> 1, depends_on |-> <<0>>, asignee |-> "alice"],
      [duration |-> 1, depends_on |-> <<1>>, asignee |-> "bob"],
      [duration |-> 1, depends_on |-> None, asignee |-> "ghost"] }

TaskInputs == SupportedTasks \cup OtherTasks

\* The ids of n tasks: all distinct, or task j repeating the id of task i.
IdInputs(n) ==
    { [k \in 1..n |-> k] } \cup
    { [k \in 1..n |-> IF k = p[2] THEN p[1] ELSE k] :
        p \in { q \in (1..n) \X (1..n) : q[1] < q[2] } }

\* Task.__init__: the declared fields and an empty bar.
Task(id, t) ==
    [id |-> id, duration |-> t.duration, depends_on |-> t.depends_on,
     asignee |-> t.asignee, bar |-> <<>>]

\* Gantty.__init__, the tasks of the project file in declaration order.
IsProject(ts) ==
    \E n \in 0..MaxTasks :
      \E ids \in IdInputs(n), body \in [1..n -> TaskInputs] :
        ts = [k \in 1..n |-> Task(ids[k], body[k])]

(* ------------------------------ strings -------------------------------- *)
\* n * ' ' and n * '#'
Blanks(n) == [k \in 1..n |-> " "]
Hashes(n) == [k \in 1..n |-> "#"]

(* ------------------------------ Resource ------------------------------- *)
schedule_bars_skip(scheduled, bars) == scheduled

schedule_bars(scheduled, bars) == scheduled + bars

unschedule_all_bars_keep(scheduled) == scheduled

unschedule_all_bars(scheduled) == 0

(* ------------------------------ terminal ------------------------------- *)
\* The terminal as the shell left it: line-buffered, echoing, no keypad
\* translation, curses not in visual mode.
OriginalTerminal ==
    [cbreak |-> FALSE, echo |-> TRUE, keypad |-> FALSE, visual |-> FALSE]

\* initscr(); noecho(); cbreak(); screen.keypad(True)
RawTerminal ==
    [cbreak |-> TRUE, echo |-> FALSE, keypad |-> TRUE, visual |-> TRUE]

\* nocbreak(); screen.keypad(False); echo(); endwin()
RestoreTerminal(t) ==
    [cbreak |-> FALSE, echo |-> TRUE, keypad |-> FALSE, visual |-> FALSE]

\* screen.refresh(): a refresh after endwin() resumes visual mode.
RefreshTerminal(t) == [t EXCEPT !.visual = TRUE]

NoError == [kind |-> "none", id |-> 0, asignee |-> ""]

(* ------------------------------ Init ----------------------------------- *)
\* Gantty.__init__ up to the construction of the resources and the tasks.
Init ==
    /\ IsProject(tasks)
    /\ resources = [r \in ResourceNames |-> 0]
    /\ pc = "check"
    /\ idx = 0
    /\ prev_task = 0
    /\ running = FALSE
    /\ screen = "None"
    /\ terminal = OriginalTerminal
    /\ handler = FALSE
    /\ err = NoError
    /\ passes = 0
    /\ last_pass = <<>>
    /\ fresh = FALSE
    /\ drawn = FALSE
    /\ errored = FALSE

(* ------------------------------ check_project -------------------------- *)
TaskIds == { tasks[i].id : i \in 1..Len(tasks) }

HasDuplicateIds == Len(tasks) # Cardinality(TaskIds)

UnknownAsignees == { i \in 1..Len(tasks) : tasks[i].asignee \notin DOMAIN resources }

FirstDeclared == CHOOSE i \in 1..Len(tasks) : \A j \in 1..Len(tasks) : i <= j

FirstUnknown == CHOOSE i \in UnknownAsignees : \A j \in UnknownAsignees : i <= j

CheckProjectAsigneeFirst ==
    /\ pc = "check"
    /\ IF UnknownAsignees # {}
         THEN /\ pc' = "failed"
              /\ err' = [kind |-> "UnknownAssignee", id |-> tasks[FirstUnknown].id,
                         asignee |-> tasks[FirstUnknown].asignee]
         ELSE IF HasDuplicateIds
                THEN /\ pc' = "failed"
                     /\ err' = [kind |-> "DuplicateTaskId", id |-> 0, asignee |-> ""]
                ELSE /\ pc' = "reset"
                     /\ err' = err
    /\ UNCHANGED <<tasks, resources, idx, prev_task, running, screen, terminal,
                   handler, passes, last_pass, fresh, drawn, errored>>

CheckProject ==
    /\ pc = "check"
    /\ IF HasDuplicateIds
         THEN /\ pc' = "failed"
              /\ err' = [kind |-> "DuplicateTaskId", id |-> 0, asignee |-> ""]
         ELSE IF UnknownAsignees # {}
                THEN /\ pc' = "failed"
                     /\ err' = [kind |-> "UnknownAssignee",
                                id |-> tasks[FirstUnknown].id,
                                asignee |-> tasks[FirstUnknown].asignee]
                ELSE /\ pc' = "reset"
                     /\ err' = err
    /\ UNCHANGED <<tasks, resources, idx, prev_task, running, screen, terminal,
                   handler, passes, last_pass, fresh, drawn, errored>>

(* ------------------------------ calculate_bars ------------------------- *)
\* The head of calculate_bars: every resource is unscheduled, prev_task = None.
UnscheduleAll ==
    /\ pc = "reset"
    /\ resources' = [r \in DOMAIN resources |-> unschedule_all_bars(resources[r])]
    /\ prev_task' = 0
    /\ idx' = 1
    /\ pc' = "calc"
    /\ UNCHANGED <<tasks, running, screen, terminal, handler, err, passes,
                   last_pass, fresh, drawn, errored>>

NoneBarNoOffset(scheduled, duration) == Hashes(duration)

NoneBar(scheduled, duration) == Blanks(scheduled) \o Hashes(duration)

PreviousBarNoOffset(prev_bar, duration) == Hashes(duration)

PreviousBar(prev_bar, duration) == Blanks(Len(prev_bar)) \o Hashes(duration)

\* One iteration of the for loop of calculate_bars, on tasks[idx].
CalcTask ==
    /\ pc = "calc"
    /\ idx <= Len(tasks)
    /\ LET task == tasks[idx]
           scheduled == resources[task.asignee]
       IN  IF task.depends_on = None
             THEN /\ tasks' = [tasks EXCEPT ![idx].bar = NoneBar(scheduled, task.duration)]
                  /\ resources' = [resources EXCEPT
                                     ![task.asignee] = schedule_bars(scheduled, task.duration)]
                  /\ prev_task' = idx
                  /\ idx' = idx + 1
                  /\ UNCHANGED <<pc, err>>
             ELSE IF task.depends_on = Previous
                    THEN /\ tasks' = [tasks EXCEPT ![idx].bar =
                                        IF prev_task # 0
                                          THEN PreviousBar(tasks[prev_task].bar, task.duration)
                                          ELSE Hashes(task.duration)]
                         /\ resources' = [resources EXCEPT
                                            ![task.asignee] =
                                                schedule_bars(scheduled, task.duration)]
                         /\ prev_task' = idx
                         /\ idx' = idx + 1
                         /\ UNCHANGED <<pc, err>>
                    ELSE IF task.depends_on[1] > 0
                           THEN /\ pc' = "failed"
                                /\ err' = [kind |-> "NotImplementedError",
                                           id |-> task.id, asignee |-> task.asignee]
                                /\ UNCHANGED <<tasks, resources, prev_task, idx>>
                           ELSE /\ prev_task' = idx
                                /\ idx' = idx + 1
                                /\ UNCHANGED <<tasks, resources, pc, err>>
    /\ UNCHANGED <<running, screen, terminal, handler, passes, last_pass, fresh,
                   drawn, errored>>

\* The snapshot a pass leaves behind: every bar and every scheduled width.
Layout == [bars |-> [i \in 1..Len(tasks) |-> tasks[i].bar], widths |-> resources]

\* The for loop is exhausted: calculate_bars returns, and __init__ sets
\* running = False and screen = None.
CalcDoneEarly ==
    /\ pc = "calc"
    /\ idx >= Len(tasks)
    /\ passes' = passes + 1
    /\ fresh' = TRUE
    /\ running' = FALSE
    /\ screen' = "None"
    /\ pc' = "built"
    /\ UNCHANGED <<tasks, resources, idx, prev_task, terminal, handler, err,
                   last_pass, drawn, errored>>

CalcDone ==
    /\ pc = "calc"
    /\ idx > Len(tasks)
    /\ passes' = passes + 1
    /\ fresh' = TRUE
    /\ running' = FALSE
    /\ screen' = "None"
    /\ pc' = "built"
    /\ UNCHANGED <<tasks, resources, idx, prev_task, terminal, handler, err,
                   last_pass, drawn, errored>>

\* A caller invoking calculate_bars again on the unchanged project.
Recalculate ==
    /\ pc = "built"
    /\ passes < MaxPasses
    /\ last_pass' = Layout
    /\ pc' = "reset"
    /\ UNCHANGED <<tasks, resources, idx, prev_task, running, screen, terminal,
                   handler, err, passes, fresh, drawn, errored>>

(* ------------------------------ __main__ ------------------------------- *)
\* signal.signal(signal.SIGINT, gantty.exit)
InstallHandler ==
    /\ pc = "built"
    /\ handler' = TRUE
    /\ pc' = "loop"
    /\ UNCHANGED <<tasks, resources, idx, prev_task, running, screen, terminal,
                   err, passes, last_pass, fresh, drawn, errored>>

(* ------------------------------ loop ----------------------------------- *)
\* initscr(), noecho(), cbreak(), keypad(True)
LoopInit ==
    /\ pc = "loop"
    /\ screen' = "window"
    /\ terminal' = RawTerminal
    /\ pc' = "set_running"
    /\ UNCHANGED <<tasks, resources, idx, prev_task, running, handler, err,
                   passes, last_pass, fresh, drawn, errored>>

\* self.running = True
SetRunning ==
    /\ pc = "set_running"
    /\ running' = TRUE
    /\ pc' = "while"
    /\ UNCHANGED <<tasks, resources, idx, prev_task, screen, terminal, handler,
                   err, passes, last_pass, fresh, drawn, errored>>

\* while self.running:
WhileTest ==
    /\ pc = "while"
    /\ IF running
         THEN pc' = "draw" /\ drawn' = FALSE
         ELSE pc' = "done" /\ drawn' = drawn
    /\ UNCHANGED <<tasks, resources, idx, prev_task, running, screen, terminal,
                   handler, err, passes, last_pass, fresh, errored>>

\* draw(): the column widths and the header row. max() of an empty list
\* raises; addstr raises when the text does not fit the window.
DrawHeader ==
    /\ pc = "draw"
    /\ \E fits \in BOOLEAN :
         IF Len(tasks) = 0 \/ ~fits
           THEN pc' = "except" /\ errored' = TRUE
           ELSE pc' = "rows" /\ errored' = errored
    /\ UNCHANGED <<tasks, resources, idx, prev_task, running, screen, terminal,
                   handler, err, passes, last_pass, fresh, drawn>>

\* draw(): one row per task, id, name, asignee and bar.
DrawRows ==
    /\ pc = "rows"
    /\ \E fits \in BOOLEAN :
         IF fits
           THEN /\ pc' = "refresh"
                /\ drawn' = TRUE
                /\ fresh' = FALSE
                /\ errored' = errored
           ELSE /\ pc' = "except"
                /\ errored' = TRUE
                /\ UNCHANGED <<drawn, fresh>>
    /\ UNCHANGED <<tasks, resources, idx, prev_task, running, screen, terminal,
                   handler, err, passes, last_pass>>

\* self.screen.refresh()
Refresh ==
    /\ pc = "refresh"
    /\ terminal' = RefreshTerminal(terminal)
    /\ pc' = "sleep"
    /\ UNCHANGED <<tasks, resources, idx, prev_task, running, screen, handler,
                   err, passes, last_pass, fresh, drawn, errored>>

\* time.sleep(1 / FRAME_RATE)
Sleep ==
    /\ pc = "sleep"
    /\ pc' = "while"
    /\ UNCHANGED <<tasks, resources, idx, prev_task, running, screen, terminal,
                   handler, err, passes, last_pass, fresh, drawn, errored>>

\* except: self.exit()
ExceptKeepRunning ==
    /\ pc = "except"
    /\ terminal' = RestoreTerminal(terminal)
    /\ pc' = "print"
    /\ UNCHANGED <<tasks, resources, idx, prev_task, running, screen, handler,
                   err, passes, last_pass, fresh, drawn, errored>>

Except ==
    /\ pc = "except"
    /\ terminal' = RestoreTerminal(terminal)
    /\ running' = FALSE
    /\ pc' = "print"
    /\ UNCHANGED <<tasks, resources, idx, prev_task, screen, handler, err,
                   passes, last_pass, fresh, drawn, errored>>

\* print(traceback.format_exc())
PrintTraceback ==
    /\ pc = "print"
    /\ pc' = "while"
    /\ UNCHANGED <<tasks, resources, idx, prev_task, running, screen, terminal,
                   handler, err, passes, last_pass, fresh, drawn, errored>>

(* ------------------------------ exit (SIGINT) -------------------------- *)
LoopPcs == {"set_running", "while", "draw", "rows", "refresh", "sleep",
            "except", "print"}

\* SIGINT runs Gantty.exit between two steps of the main thread, which then
\* resumes where it was. Before initscr() curses.nocbreak() raises and the
\* process dies of the uncaught error.
Sigint ==
    /\ handler
    /\ IF pc = "loop"
         THEN /\ pc' = "failed"
              /\ err' = [kind |-> "curses.error", id |-> 0, asignee |-> ""]
              /\ UNCHANGED <<terminal, running>>
         ELSE /\ pc \in LoopPcs
              /\ terminal' = RestoreTerminal(terminal)
              /\ running' = FALSE
              /\ UNCHANGED <<pc, err>>
    /\ UNCHANGED <<tasks, resources, idx, prev_task, screen, handler, passes,
                   last_pass, fresh, drawn, errored>>

(* ------------------------------ specifications ------------------------- *)
Next ==
    \/ CheckProject
    \/ UnscheduleAll
    \/ CalcTask
    \/ CalcDone
    \/ InstallHandler
    \/ LoopInit
    \/ SetRunning
    \/ WhileTest
    \/ DrawHeader
    \/ DrawRows
    \/ Refresh
    \/ Sleep
    \/ Except
    \/ PrintTraceback
    \/ Sigint

Spec == Init /\ [][Next]_vars

\* The program with a caller that runs the layout pass again before the loop.
NextRelayout == Next \/ Recalculate

SpecRelayout == Init /\ [][NextRelayout]_vars

(* ------------------------------ bars ----------------------------------- *)
RECURSIVE LeadingBlanks(_)
LeadingBlanks(bar) ==
    IF bar # <<>> /\ Head(bar) = " " THEN 1 + LeadingBlanks(Tail(bar)) ELSE 0

\* offset: the blank cells at the head of the bar. width: the cells after them.
Offset(i) == LeadingBlanks(tasks[i].bar)
Width(i) == Len(tasks[i].bar) - Offset(i)
IsBar(bar) ==
    \A k \in 1..Len(bar) : bar[k] = (IF k <= LeadingBlanks(bar) THEN " " ELSE "#")

RECURSIVE SumDur(_)
SumDur(S) ==
    IF S = {} THEN 0
    ELSE LET i == CHOOSE j \in S : TRUE IN tasks[i].duration + SumDur(S \ {i})

\* The tasks declared before task i (before position i) on resource r.
Earlier(i, r) == { j \in 1..(i - 1) : tasks[j].asignee = r }

AllNone == \A i \in 1..Len(tasks) : tasks[i].depends_on = None
AllSupported == \A i \in 1..Len(tasks) : tasks[i].depends_on \in {None, Previous}
LaidOut == passes >= 1 /\ pc \notin {"reset", "calc"}
Untouched ==
    /\ passes = 0
    /\ \A r \in DOMAIN resources : resources[r] = 0
    /\ \A i \in 1..Len(tasks) : tasks[i].bar = <<>>
    /\ ~drawn
    /\ screen = "None"
    /\ terminal = OriginalTerminal

(* ------------------------------ claims --------------------------------- *)
\* C1: when every task has dependency None, after calculate_bars the offset
\* of each task is the sum of the durations of the earlier tasks of the same
\* resource, its width is its duration, and the bars of one resource do not
\* overlap.
C1_NonePackedLeft ==
    (LaidOut /\ AllNone) =>
        /\ \A i \in 1..Len(tasks) :
             /\ IsBar(tasks[i].bar)
             /\ Offset(i) = SumDur(Earlier(i, tasks[i].asignee))
             /\ Width(i) = tasks[i].duration
        /\ \A i, j \in 1..Len(tasks) :
             (i < j /\ tasks[i].asignee = tasks[j].asignee)
                => Offset(i) + Width(i) <= Offset(j)

C1_Witness ==
    /\ LaidOut /\ AllNone /\ Len(tasks) = 3
    /\ tasks[1].asignee = tasks[3].asignee
    /\ tasks[2].asignee # tasks[1].asignee
    /\ Offset(3) = tasks[1].duration
    /\ Offset(2) = 0

\* C2: when every dependency is None or Previous, after calculate_bars a task
\* with dependency Previous starts where the task declared just before it
\* ends, and at 0 when it is the first task, whatever its resource holds.
C2_PreviousAfterPredecessor ==
    (LaidOut /\ AllSupported) =>
        \A i \in 1..Len(tasks) :
            tasks[i].depends_on = Previous =>
                /\ IsBar(tasks[i].bar)
                /\ Width(i) = tasks[i].duration
                /\ Offset(i) = IF i = 1 THEN 0
                               ELSE Offset(i - 1) + tasks[i - 1].duration

C2_Witness ==
    /\ LaidOut /\ Len(tasks) >= 2
    /\ tasks[1].depends_on = None /\ tasks[1].asignee = "alice"
    /\ tasks[1].duration = 2
    /\ tasks[2].depends_on = Previous /\ tasks[2].asignee = "bob"
    /\ Offset(2) = 2

\* C3: a project holding a task whose depends_on is neither None nor -1
\* never has a layout pass that completes normally.
C3_UnsupportedAlwaysFails ==
    (\E i \in 1..Len(tasks) : tasks[i].depends_on \notin {None, Previous})
        => passes = 0

\* C4: with dependencies None or Previous, a layout pass run again on the
\* unchanged project ends with the bars and the scheduled widths the pass
\* before it ended with.
C4_Idempotent ==
    (AllSupported /\ passes >= 2 /\ pc = "built") => Layout = last_pass

C4_Witness ==
    /\ AllSupported /\ passes >= 2 /\ pc = "built"
    /\ Len(tasks) >= 2
    /\ \E r \in DOMAIN resources : resources[r] >= 2
    /\ \E i \in 1..Len(tasks) : Offset(i) > 0

\* C5: when two tasks share an id, check_project fails with the duplicate-id
\* error and nothing else happens: no width, no bar, no screen.
C5_DuplicateIdAborts ==
    (HasDuplicateIds /\ pc # "check") =>
        /\ pc = "failed"
        /\ err.kind = "DuplicateTaskId"
        /\ Untouched

C5_Witness ==
    /\ HasDuplicateIds /\ pc = "failed"
    /\ UnknownAsignees # {}

\* C6 as stated: whenever some asignee is unknown, check_project fails with
\* the unknown-asignee error.
C6_UnknownAsigneeAlways ==
    (UnknownAsignees # {} /\ pc # "check") =>
        /\ pc = "failed"
        /\ err.kind = "UnknownAssignee"

\* C6: when some asignee is unknown and the task ids are pairwise distinct,
\* check_project fails with the unknown-asignee error, which names the id and
\* the asignee of a task whose asignee is unknown, and nothing is laid out.
C6_UnknownAsigneeDistinctIds ==
    (UnknownAsignees # {} /\ ~HasDuplicateIds /\ pc # "check") =>
        /\ pc = "failed"
        /\ err.kind = "UnknownAssignee"
        /\ \E i \in UnknownAsignees :
             err.id = tasks[i].id /\ err.asignee = tasks[i].asignee
        /\ \A i \in 1..Len(tasks) :
             tasks[i].id = err.id => tasks[i].asignee \notin DOMAIN resources
        /\ Untouched

C6_Witness ==
    /\ pc = "failed" /\ err.kind = "UnknownAssignee"
    /\ Len(tasks) >= 2
    /\ tasks[1].asignee \in DOMAIN resources
    /\ err.id = 2

\* C7: when the loop has stopped, the terminal is in its original state.
C7_StoppedLoopRestored ==
    pc = "done" => terminal = OriginalTerminal

\* C8: after an error inside a loop iteration no frame is drawn any more,
\* and from the report of the error on the terminal is restored and the
\* loop is no longer running.
C8_ErrorRestoresAndStops ==
    errored =>
        /\ pc \in {"except", "print", "while", "done"}
        /\ pc \in {"print", "while", "done"} =>
              (~running /\ terminal = OriginalTerminal)

C8_Witness == errored /\ pc = "done" /\ Len(tasks) > 0

C10_LedgerSums ==
    (AllSupported /\ pc = "calc") =>
        /\ \A r \in DOMAIN resources : resources[r] = SumDur(Earlier(idx, r))
        /\ \A i \in 1..(idx - 1) :
             tasks[i].depends_on = None =>
                 Offset(i) = SumDur(Earlier(i, tasks[i].asignee))

C10_NeverDecreases ==
    (pc = "calc" /\ pc' = "calc") =>
        \A r \in DOMAIN resources : resources'[r] >= resources[r]

C10_Ledger == [](C10_LedgerSums) /\ [][C10_NeverDecreases]_vars

C10_Witness ==
    /\ pc = "calc" /\ idx = 3
    /\ tasks[1].depends_on = Previous /\ tasks[2].depends_on = None
    /\ tasks[1].asignee = tasks[2].asignee
    /\ Offset(2) = tasks[1].duration
    /\ resources[tasks[1].asignee] = tasks[1].duration + tasks[2].duration

====
